---- MODULE Spec2Model ----
(***************************************************************************)
(* State-machine model of the client helpers of justdeen-data:             *)
(*   - QuranService (JavaScript): memory cache, persistent cache with TTL,  *)
(*     network fetch with fallback, priority preloader, getVerse,           *)
(*     searchVerses, clearCache;                                            *)
(*   - the README's Dart HadithService (getCollection, getBook, getHadith)  *)
(*     and Dart QuranService (getChapter, getVerse).                        *)
(***************************************************************************)
EXTENDS Integers, Sequences, FiniteSets, TLC

(***************************************************************************)
(* Bounds of the model                                                     *)
(***************************************************************************)
\* number of clock advances a behaviour may take
MaxTicks == 2
\* horizon of the clock in ms: two chapter TTLs and two more ms after the start
MaxNow == 1209600002
\* number of user calls a behaviour may start
MaxCalls == 2
\* number of content versions the CDN publishes
MaxVersion == 2
\* how many entries of the essential and of the popular list the preloader model loads
MaxEssential == 2
MaxPopular == 1

(***************************************************************************)
(* Optional values: null is the empty tuple, a value v is <<v>>            *)
(***************************************************************************)
None == <<>>

Some(v) == <<v>>

(***************************************************************************)
(* Program constants                                                       *)
(***************************************************************************)
\* loadQuranIndex: setCachedData(cacheKey, data, 24 * 60 * 60 * 1000)
IndexTtlMs == 24 * 60 * 60 * 1000

\* loadChapter: setCachedData(cacheKey, data, 7 * 24 * 60 * 60 * 1000)
ChapterTtlMs == 7 * 24 * 60 * 60 * 1000

\* preloadPriorityChapters: setTimeout(..., 2000)
PreloadDelayMs == 2000

\* loadChapter: chapterNumber < 1 || chapterNumber > 114
FirstChapter == 1

LastChapter == 114

\* this.loadingPriority[1] and this.loadingPriority[2]
loadingPriority ==
  [essential |-> <<1, 67, 112, 113, 114>>,
   popular   |-> <<18, 19, 20, 36, 48, 55, 56, 62, 78, 97>>]

(***************************************************************************)
(* State                                                                   *)
(***************************************************************************)
VARIABLES
  offlineFirst,   \* this.offlineFirst (config.offlineFirst !== false)
  quotaExceeded,  \* the host store rejects setItem with an exception
  cache,          \* this.cache: a Map, as the sequence of its entries in insertion order
  storage,        \* this.storage: host key/value store, present storage key -> item string
  index,          \* this.index
  now,            \* Date.now()
  ticks,          \* clock advances taken so far
  serverVer,      \* content version the CDN serves at present
  calls,          \* the calls of the service's methods: position and locals of each
  ncalls,         \* user calls started so far
  last,           \* cache key -> document the latest completed accessor call returned
  preloadPc,      \* position of preloadPriorityChapters
  timer,          \* the pending setTimeout: null or the time it is due
  waves,          \* what loadChapters returned for the essential and the popular list
  unhandled,      \* promises that rejected with no handler attached
  probe,          \* the last direct setCachedData and getCachedData calls and what was returned
  dcache,         \* _cache of the Dart HadithService: cache key -> decoded document
  hcall,          \* the getHadith call of the Dart HadithService
  qcache,         \* _cache of the Dart QuranService: cache key -> decoded document
  vcall,          \* the getVerse call of the Dart QuranService
  disk            \* the collection directory extract-hadith.js writes: book files and collection.json

vars == <<offlineFirst, quotaExceeded, cache, storage, index, now, ticks,
          serverVer, calls, ncalls, last, preloadPc, timer, waves, unhandled, probe,
          dcache, hcall, qcache, vcall, disk>>

hadithVars == <<dcache, hcall>>

verseVars == <<qcache, vcall>>

dartVars == <<hadithVars, verseVars, disk>>

cfgVars == <<offlineFirst, quotaExceeded>>

clockVars == <<now, ticks>>

preVars == <<preloadPc, timer, waves, unhandled>>

(***************************************************************************)
(* Keys.  A cache key is <<name, number>>: `chapter-${n}` is               *)
(* <<"chapter-", n>>, 'quran-index' is <<"quran-index", 0>>.  The storage   *)
(* key `quran-${key}` is <<"quran-", name, number>>.                       *)
(***************************************************************************)
IndexKey == <<"quran-index", 0>>

ChapterKey(n) == <<"chapter-", n>>

StorageKey(key) == <<"quran-", key[1], key[2]>>

\* key.startsWith('quran-')
HasPrefix(sk) == sk[1] = "quran-"

(***************************************************************************)
(* The host store (localStorage interface) as a function on present keys   *)
(***************************************************************************)
getItem(store, sk) == IF sk \in DOMAIN store THEN Some(store[sk]) ELSE None

setItem(store, sk, str) ==
  [k \in DOMAIN store \cup {sk} |-> IF k = sk THEN str ELSE store[k]]

removeItem(store, sk) == [k \in DOMAIN store \ {sk} |-> store[k]]

(***************************************************************************)
(* JSON.stringify / JSON.parse of a storage item.  The stored string is    *)
(* modelled as the text tag with the item it encodes; parsing a string     *)
(* that setCachedData wrote gives the item back.                           *)
(***************************************************************************)
JSONstringify(item) == <<"json", item>>

JSONparse(str) == str[2]

\* JavaScript truthiness of the `expires` field: null and 0 are falsy
Truthy(expires) == expires # None /\ expires[1] # 0

\* getCachedData that returns null for an expired entry and leaves it in the store
getCachedDataKeeping(store, key, time) ==
  LET sk == StorageKey(key)
      item == getItem(store, sk)
  IN  IF item = None
        THEN [ret |-> None, storage |-> store]
        ELSE LET parsed == JSONparse(item[1])
             IN  IF Truthy(parsed.expires) /\ time > parsed.expires[1]
                   THEN [ret |-> None, storage |-> store]
                   ELSE [ret |-> Some(parsed.data), storage |-> store]

\* getCachedData with the TTL check `Date.now() >= parsed.expires`
getCachedDataEager(store, key, time) ==
  LET sk == StorageKey(key)
      item == getItem(store, sk)
  IN  IF item = None
        THEN [ret |-> None, storage |-> store]
        ELSE LET parsed == JSONparse(item[1])
             IN  IF Truthy(parsed.expires) /\ time >= parsed.expires[1]
                   THEN [ret |-> None, storage |-> removeItem(store, sk)]
                   ELSE [ret |-> Some(parsed.data), storage |-> store]

(***************************************************************************)
(* getCachedData(key): the value returned and the store it leaves          *)
(***************************************************************************)
getCachedData(store, key, time) ==
  LET sk == StorageKey(key)
      item == getItem(store, sk)
  IN  IF item = None
        THEN [ret |-> None, storage |-> store]
        ELSE LET parsed == JSONparse(item[1])
             IN  IF Truthy(parsed.expires) /\ time > parsed.expires[1]
                   THEN [ret |-> None, storage |-> removeItem(store, sk)]
                   ELSE [ret |-> Some(parsed.data), storage |-> store]

(***************************************************************************)
(* setCachedData(key, data, ttlMs): the store it leaves.  The item reads   *)
(* the clock twice: `time` is the Date.now() of expires, `later` the       *)
(* Date.now() of cached.  A setItem that throws is caught and logged, the  *)
(* store keeps what it had.                                                *)
(***************************************************************************)
setCachedDataAt(store, key, data, ttlMs, time, later, full) ==
  LET item == [data    |-> data,
               expires |-> IF ttlMs > 0 THEN Some(time + ttlMs) ELSE None,
               cached  |-> later]
  IN  IF full THEN store
      ELSE setItem(store, StorageKey(key), JSONstringify(item))

\* setCachedData when both readings fall in the same millisecond
setCachedData(store, key, data, ttlMs, time, full) ==
  setCachedDataAt(store, key, data, ttlMs, time, time, full)

(***************************************************************************)
(* this.cache, a JavaScript Map: entries in insertion order                *)
(***************************************************************************)
MapHas(m, key) == \E i \in 1..Len(m) : m[i].key = key

MapGet(m, key) == m[CHOOSE i \in 1..Len(m) : m[i].key = key].value

MapSet(m, key, value) ==
  IF MapHas(m, key)
    THEN [i \in 1..Len(m) |->
            IF m[i].key = key THEN [key |-> key, value |-> value] ELSE m[i]]
    ELSE Append(m, [key |-> key, value |-> value])

(***************************************************************************)
(* Text: a string is the tuple of its characters                           *)
(***************************************************************************)
Lower(ch) == CASE ch = "A" -> "a" [] ch = "B" -> "b" [] OTHER -> ch

toLowerCase(text) == [i \in 1..Len(text) |-> Lower(text[i])]

\* hay.includes(needle)
includes(hay, needle) ==
  \E i \in 0..(Len(hay) - Len(needle)) :
    \A j \in 1..Len(needle) : hay[i + j] = needle[j]

(***************************************************************************)
(* Resource documents the CDN serves.  A chapter document exposes chapter, *)
(* name and content, a sequence of verse records with verse, arabic and    *)
(* translations keyed by `${language}.${translation}`, here a mapping that *)
(* gives null for a key the verse has no translation for.  Publishing a    *)
(* new content version revises a translation.                              *)
(***************************************************************************)
LangKeys == {"en.sahih", "fr.sahih"}

NoTranslations == [k \in LangKeys |-> None]

Sahih(text) == [k \in LangKeys |-> IF k = "en.sahih" THEN Some(text) ELSE None]

VerseRec(v, arabic, translations) ==
  [verse |-> v, arabic |-> arabic, translations |-> translations]

Content(n, ver) ==
  CASE n = 1 -> << VerseRec(1, <<"b">>, Sahih(IF ver = 1 THEN <<"A", "b">> ELSE <<"A", "b", "b">>)),
                   VerseRec(2, <<"a", "b">>, NoTranslations) >>
    [] n = 2 -> << VerseRec(1, <<"b">>, Sahih(<<"b", "a">>)),
                   VerseRec(255, <<"a">>, Sahih(IF ver = 1 THEN <<"a">> ELSE <<"a", "B">>)) >>
    [] OTHER -> << VerseRec(1, <<"a">>, Sahih(IF ver = 1 THEN <<"a">> ELSE <<"b">>)) >>

ChapterDoc(n, ver) ==
  [chapter |-> n, name |-> <<"surah", n>>, version |-> ver, content |-> Content(n, ver)]

IndexDoc(ver) == [totalChapters |-> LastChapter, version |-> ver]

(***************************************************************************)
(* HTTP responses: status 0 stands for a transport error (fetch rejects)   *)
(***************************************************************************)
Responses ==
  { [status |-> 200, parses |-> TRUE],  [status |-> 200, parses |-> FALSE],
    [status |-> 201, parses |-> TRUE],  [status |-> 404, parses |-> TRUE],
    [status |-> 0,   parses |-> FALSE] }

\* a status test that takes every status from 200 up as a success
ResponseOkLoose(resp) == resp.status >= 200

\* response.ok
ResponseOk(resp) == resp.status >= 200 /\ resp.status <= 299

\* the fetch and response.json() both succeed
FetchSucceeds(resp) == ResponseOk(resp) /\ resp.parses

(***************************************************************************)
(* Calls.  A call record holds the method, its arguments, the await it is  *)
(* suspended at (pc) and its locals.  io lists the cache and network       *)
(* accesses of the call in order: "mem" / "memw" read / write of           *)
(* this.cache, "store" / "storew" read / write of the persistent store,    *)
(* "net" a request issued.  persisted, fresh and prev record what the call *)
(* found when it started: the document the store held under its key, if    *)
(* that entry was unexpired, and the document the previous call for the    *)
(* same key returned.                                                      *)
(***************************************************************************)
IdleCall ==
  [op |-> "none", chapter |-> 0, verse |-> 0, query |-> <<>>, language |-> "",
   limit |-> 0, pc |-> "idle", cached |-> None, loaded |-> None, io |-> <<>>,
   error |-> "", ret |-> None, persisted |-> None, fresh |-> FALSE, prev |-> None,
   netfail |-> FALSE]

ChapterOps == {"loadChapter", "getVerse"}

IndexOps == {"loadQuranIndex", "initialize", "searchVerses"}

LoadKey(call) == IF call.op \in ChapterOps THEN ChapterKey(call.chapter) ELSE IndexKey

\* the guard with its upper bound moved by one
ValidChapterLoose(n) == ~(n < FirstChapter \/ n > LastChapter + 1)

\* chapterNumber < 1 || chapterNumber > 114 throws
ValidChapter(n) == ~(n < FirstChapter \/ n > LastChapter)

\* fetch(url) is called: the call is suspended until the response arrives
IssueFetch(call) == [call EXCEPT !.pc = "fetching", !.io = Append(@, "net")]

Step(call, cacheM, store) == [call |-> call, cache |-> cacheM, storage |-> store]

\* loadChapter that skips the offline-first read of the persistent cache
loadChapterStartNetworkFirst(call, cacheM, store, time, off) ==
  LET key == ChapterKey(call.chapter)
  IN  IF ~ValidChapter(call.chapter)
        THEN Step([call EXCEPT !.pc = "settled", !.error = "InvalidChapter"], cacheM, store)
      ELSE IF MapHas(cacheM, key)
        THEN Step([call EXCEPT !.pc = "settled", !.io = Append(@, "mem"),
                               !.loaded = Some(MapGet(cacheM, key))], cacheM, store)
      ELSE Step(IssueFetch([call EXCEPT !.io = Append(@, "mem")]), cacheM, store)

\* loadChapter that joins a load of the same chapter already in flight
\* instead of issuing a request of its own
loadChapterStartCoalescing(call, cacheM, store, time, off) ==
  LET key == ChapterKey(call.chapter)
  IN  IF ~ValidChapter(call.chapter)
        THEN Step([call EXCEPT !.pc = "settled", !.error = "InvalidChapter"], cacheM, store)
      ELSE IF MapHas(cacheM, key)
        THEN Step([call EXCEPT !.pc = "settled", !.io = Append(@, "mem"),
                               !.loaded = Some(MapGet(cacheM, key))], cacheM, store)
      ELSE IF \E c \in DOMAIN calls :
                /\ calls[c].op \in ChapterOps /\ calls[c].chapter = call.chapter
                /\ calls[c].pc \in {"read1", "fetching"}
        THEN Step([call EXCEPT !.pc = "fetching", !.io = Append(@, "mem")], cacheM, store)
      ELSE IF off
        THEN LET r == getCachedData(store, key, time)
             IN  Step([call EXCEPT !.pc = "read1", !.io = @ \o <<"mem", "store">>,
                                   !.cached = r.ret], cacheM, r.storage)
      ELSE Step(IssueFetch([call EXCEPT !.io = Append(@, "mem")]), cacheM, store)

(***************************************************************************)
(* loadChapter(chapterNumber), from the call to its first await            *)
(***************************************************************************)
loadChapterStart(call, cacheM, store, time, off) ==
  LET key == ChapterKey(call.chapter)
  IN  IF ~ValidChapter(call.chapter)
        THEN Step([call EXCEPT !.pc = "settled", !.error = "InvalidChapter"], cacheM, store)
      ELSE IF MapHas(cacheM, key)
        THEN Step([call EXCEPT !.pc = "settled", !.io = Append(@, "mem"),
                               !.loaded = Some(MapGet(cacheM, key))], cacheM, store)
      ELSE IF off
        THEN LET r == getCachedData(store, key, time)
             IN  Step([call EXCEPT !.pc = "read1", !.io = @ \o <<"mem", "store">>,
                                   !.cached = r.ret], cacheM, r.storage)
      ELSE Step(IssueFetch([call EXCEPT !.io = Append(@, "mem")]), cacheM, store)

(***************************************************************************)
(* loadChapter resumed after `await this.getCachedData(cacheKey)` of the   *)
(* offline-first read                                                      *)
(***************************************************************************)
loadChapterAfterRead(call, cacheM, store) ==
  IF call.cached # None
    THEN Step([call EXCEPT !.pc = "settled", !.io = Append(@, "memw"),
                           !.loaded = call.cached],
              MapSet(cacheM, ChapterKey(call.chapter), call.cached[1]), store)
    ELSE Step(IssueFetch(call), cacheM, store)

\* loadChapter that stores a fetched document in the persistent cache only
loadChapterResponseNoMemory(call, resp, cacheM, store, time, ver, full) ==
  LET key == ChapterKey(call.chapter)
      data == ChapterDoc(call.chapter, ver)
  IN  IF FetchSucceeds(resp)
        THEN Step([call EXCEPT !.pc = "written", !.io = Append(@, "storew"),
                               !.loaded = Some(data)],
                  cacheM,
                  setCachedData(store, key, data, ChapterTtlMs, time, full))
        ELSE LET r == getCachedData(store, key, time)
             IN  Step([call EXCEPT !.pc = "read2", !.io = Append(@, "store"),
                                   !.netfail = TRUE, !.cached = r.ret], cacheM, r.storage)

(***************************************************************************)
(* loadChapter resumed with the response: on success the document is put   *)
(* in both caches; on failure the catch block reads the persistent cache   *)
(***************************************************************************)
loadChapterResponse(call, resp, cacheM, store, time, ver, full) ==
  LET key == ChapterKey(call.chapter)
      data == ChapterDoc(call.chapter, ver)
  IN  IF FetchSucceeds(resp)
        THEN Step([call EXCEPT !.pc = "written", !.io = @ \o <<"memw", "storew">>,
                               !.loaded = Some(data)],
                  MapSet(cacheM, key, data),
                  setCachedData(store, key, data, ChapterTtlMs, time, full))
        ELSE LET r == getCachedData(store, key, time)
             IN  Step([call EXCEPT !.pc = "read2", !.io = Append(@, "store"),
                                   !.netfail = TRUE, !.cached = r.ret], cacheM, r.storage)

\* loadChapter resumed after `await this.setCachedData(...)`: return data
loadChapterAfterWrite(call, cacheM, store) ==
  Step([call EXCEPT !.pc = "settled"], cacheM, store)

(***************************************************************************)
(* loadChapter resumed after the fallback read of the catch block          *)
(***************************************************************************)
loadChapterAfterFallback(call, cacheM, store) ==
  IF call.cached # None
    THEN Step([call EXCEPT !.pc = "settled", !.io = Append(@, "memw"),
                           !.loaded = call.cached],
              MapSet(cacheM, ChapterKey(call.chapter), call.cached[1]), store)
    ELSE Step([call EXCEPT !.pc = "settled", !.error = "FetchFailed"], cacheM, store)

(***************************************************************************)
(* loadQuranIndex(), the same four resumption points; it never touches     *)
(* this.cache                                                              *)
(***************************************************************************)
loadQuranIndexStart(call, cacheM, store, time, off) ==
  IF off
    THEN LET r == getCachedData(store, IndexKey, time)
         IN  Step([call EXCEPT !.pc = "read1", !.io = Append(@, "store"),
                               !.cached = r.ret], cacheM, r.storage)
    ELSE Step(IssueFetch(call), cacheM, store)

loadQuranIndexAfterRead(call, cacheM, store) ==
  IF call.cached # None
    THEN Step([call EXCEPT !.pc = "settled", !.loaded = call.cached], cacheM, store)
    ELSE Step(IssueFetch(call), cacheM, store)

loadQuranIndexResponse(call, resp, cacheM, store, time, ver, full) ==
  LET data == IndexDoc(ver)
  IN  IF FetchSucceeds(resp)
        THEN Step([call EXCEPT !.pc = "written", !.io = Append(@, "storew"),
                               !.loaded = Some(data)],
                  cacheM, setCachedData(store, IndexKey, data, IndexTtlMs, time, full))
        ELSE LET r == getCachedData(store, IndexKey, time)
             IN  Step([call EXCEPT !.pc = "read2", !.io = Append(@, "store"),
                                   !.netfail = TRUE, !.cached = r.ret], cacheM, r.storage)

loadQuranIndexAfterWrite(call, cacheM, store) ==
  Step([call EXCEPT !.pc = "settled"], cacheM, store)

loadQuranIndexAfterFallback(call, cacheM, store) ==
  IF call.cached # None
    THEN Step([call EXCEPT !.pc = "settled", !.loaded = call.cached], cacheM, store)
    ELSE Step([call EXCEPT !.pc = "settled", !.error = "FetchFailed"], cacheM, store)

(***************************************************************************)
(* searchVerses: the scan of this.cache in Map order                       *)
(***************************************************************************)
\* `${language}.${translation}` with the default translation 'sahih'
TranslationKey(language) == IF language = "en" THEN "en.sahih" ELSE "fr.sahih"

\* verse.translations?.[key] || ''
TranslationText(verse, key) ==
  IF verse.translations[key] = None THEN <<>> ELSE verse.translations[key][1]

RECURSIVE ScanVerses(_, _, _, _, _, _)
ScanVerses(chapter, j, results, searchTerm, key, limit) ==
  IF j > Len(chapter.content) THEN results
  ELSE LET verse == chapter.content[j]
           translationText == TranslationText(verse, key)
       IN  IF includes(toLowerCase(translationText), searchTerm)
             THEN LET pushed == Append(results,
                                  [chapter |-> chapter.chapter, verse |-> verse.verse,
                                   arabic |-> verse.arabic, translation |-> translationText])
                  IN  IF Len(pushed) >= limit THEN pushed
                      ELSE ScanVerses(chapter, j + 1, pushed, searchTerm, key, limit)
             ELSE ScanVerses(chapter, j + 1, results, searchTerm, key, limit)

RECURSIVE ScanChapters(_, _, _, _, _, _)
ScanChapters(cacheM, i, results, searchTerm, key, limit) ==
  IF i > Len(cacheM) THEN results
  ELSE IF cacheM[i].key[1] # "chapter-"
    THEN ScanChapters(cacheM, i + 1, results, searchTerm, key, limit)
  ELSE LET scanned == ScanVerses(cacheM[i].value, 1, results, searchTerm, key, limit)
       IN  IF Len(scanned) >= limit THEN scanned
           ELSE ScanChapters(cacheM, i + 1, scanned, searchTerm, key, limit)

searchVersesScan(cacheM, query, language, limit) ==
  ScanChapters(cacheM, 1, <<>>, toLowerCase(query), TranslationKey(language), limit)

(***************************************************************************)
(* getVerse: chapter.content.find(v => v.verse === verseNum) and the       *)
(* record built from it                                                    *)
(***************************************************************************)
FindVerse(chapter, verseNum) ==
  IF \E j \in 1..Len(chapter.content) : chapter.content[j].verse = verseNum
    THEN Some(chapter.content[CHOOSE j \in 1..Len(chapter.content) :
                /\ chapter.content[j].verse = verseNum
                /\ \A k \in 1..(j - 1) : chapter.content[k].verse # verseNum])
    ELSE None

getVerseResult(call) ==
  LET chapter == call.loaded[1]
      verse == FindVerse(chapter, call.verse)
  IN  IF verse = None
        THEN [call EXCEPT !.pc = "done", !.error = "VerseNotFound"]
        ELSE [call EXCEPT !.pc = "done",
                !.ret = Some([chapter |-> chapter.chapter, chapterName |-> chapter.name,
                              verse |-> verse[1].verse, arabic |-> verse[1].arabic,
                              translation |-> verse[1].translations])]

(***************************************************************************)
(* Call identities: the user's calls, initialize(), and the loadChapter    *)
(* calls loadChapters makes for each list entry                            *)
(***************************************************************************)
UserId == <<"user", 1>>

InitId == <<"init", 0>>

Essential == SubSeq(loadingPriority.essential, 1, MaxEssential)

Popular == SubSeq(loadingPriority.popular, 1, MaxPopular)

WaveList(wave) == IF wave = "essential" THEN Essential ELSE Popular

WaveIds(wave) == { <<wave, i>> : i \in 1..Len(WaveList(wave)) }

CallIds == {UserId, InitId} \cup WaveIds("essential") \cup WaveIds("popular")

\* partial mappings with a growing domain
Put(f, k, v) == [x \in DOMAIN f \cup {k} |-> IF x = k THEN v ELSE f[x]]

Lookup(f, k) == IF k \in DOMAIN f THEN Some(f[k]) ELSE None

\* the document the store holds under the key, whatever its expiry
Persisted(store, key) ==
  IF StorageKey(key) \in DOMAIN store
    THEN Some(JSONparse(store[StorageKey(key)]).data) ELSE None

\* the store holds an entry under the key that getCachedData would return at that time
Fresh(store, key, time) == getCachedData(store, key, time).ret # None

NewCall(op, chapter, verse, store, lastf, time) ==
  LET call == [IdleCall EXCEPT !.op = op, !.chapter = chapter, !.verse = verse]
  IN  [call EXCEPT !.persisted = Persisted(store, LoadKey(call)),
                   !.fresh = Fresh(store, LoadKey(call), time),
                   !.prev = Lookup(lastf, LoadKey(call))]

\* an accessor returns what its load produced
LoadDone(call) == [call EXCEPT !.pc = "done", !.ret = call.loaded]

\* a loadChapters that does not call loadChapter before it returns its promise
loadChaptersStartLater(wave, i, callsf, cacheM, store, lastf, time, off) ==
  [calls |-> callsf, cache |-> cacheM, storage |-> store]

(***************************************************************************)
(* loadChapters(chapterNumbers): chapterNumbers.map(num =>                 *)
(* this.loadChapter(num)) runs every loadChapter up to its first await     *)
(***************************************************************************)
RECURSIVE loadChaptersStart(_, _, _, _, _, _, _, _)
loadChaptersStart(wave, i, callsf, cacheM, store, lastf, time, off) ==
  IF i > Len(WaveList(wave))
    THEN [calls |-> callsf, cache |-> cacheM, storage |-> store]
    ELSE LET st == loadChapterStart(NewCall("loadChapter", WaveList(wave)[i], 0, store, lastf, time),
                                    cacheM, store, time, off)
             rec == IF st.call.pc = "settled" THEN LoadDone(st.call) ELSE st.call
         IN  loadChaptersStart(wave, i + 1, [callsf EXCEPT ![<<wave, i>>] = rec],
                               st.cache, st.storage, lastf, time, off)

\* loadChapters with Promise.all in place of Promise.allSettled: one rejected
\* load rejects the whole call
loadChaptersResultAll(wave, callsf) ==
  LET chapterNumbers == WaveList(wave)
      results == [i \in 1..Len(chapterNumbers) |-> callsf[<<wave, i>>]]
  IN  [status     |-> IF \E i \in 1..Len(results) : results[i].error # ""
                        THEN "rejected" ELSE "fulfilled",
       successful |-> <<>>,
       failed     |-> <<>>]

(***************************************************************************)
(* loadChapters once Promise.allSettled(promises) has resolved: the        *)
(* documents of the fulfilled loads and the failure report                 *)
(***************************************************************************)
Fulfilled(result) == result.error = ""

Rejected(result) == result.error # ""

loadChaptersResult(wave, callsf) ==
  LET chapterNumbers == WaveList(wave)
      results == [i \in 1..Len(chapterNumbers) |-> callsf[<<wave, i>>]]
      kept == SelectSeq(results, Fulfilled)
      lost == SelectSeq(results, Rejected)
  IN  [status     |-> "fulfilled",
       successful |-> [i \in 1..Len(kept) |-> kept[i].ret[1]],
       failed     |-> [i \in 1..Len(lost) |->
                         [chapter |-> chapterNumbers[i], error |-> lost[i].error]]]

(***************************************************************************)
(* A call reaches an await (Suspend) or the end of its method (Finish)     *)
(***************************************************************************)
Suspend(c, st) ==
  /\ calls' = [calls EXCEPT ![c] = st.call]
  /\ cache' = st.cache
  /\ storage' = st.storage
  /\ UNCHANGED <<index, last, preVars>>

FinishLoad(c, st) ==
  /\ calls' = [calls EXCEPT ![c] = LoadDone(st.call)]
  /\ cache' = st.cache
  /\ storage' = st.storage
  /\ last' = IF st.call.loaded # None
               THEN Put(last, LoadKey(st.call), st.call.loaded[1]) ELSE last
  /\ UNCHANGED <<index, preVars>>

\* getVerse after `await this.loadChapter(chapterNum)`
FinishGetVerse(c, st) ==
  /\ calls' = [calls EXCEPT ![c] =
                 IF st.call.error # "" THEN [st.call EXCEPT !.pc = "done"]
                 ELSE getVerseResult(st.call)]
  /\ cache' = st.cache
  /\ storage' = st.storage
  /\ UNCHANGED <<index, last, preVars>>

\* a searchVerses that loads chapter 1 into this.cache before it scans
FinishSearchVersesLoading(c, st) ==
  LET loadedM == MapSet(st.cache, ChapterKey(1), ChapterDoc(1, serverVer))
  IN  /\ calls' = [calls EXCEPT ![c] =
                     IF st.call.error # "" THEN [st.call EXCEPT !.pc = "done"]
                     ELSE [st.call EXCEPT !.pc = "done",
                             !.ret = Some(searchVersesScan(loadedM, st.call.query,
                                                           st.call.language, st.call.limit))]]
      /\ cache' = loadedM
      /\ storage' = st.storage
      /\ UNCHANGED <<index, last, preVars>>

\* searchVerses after `await this.loadQuranIndex()`: the scan of this.cache
FinishSearchVerses(c, st) ==
  /\ calls' = [calls EXCEPT ![c] =
                 IF st.call.error # "" THEN [st.call EXCEPT !.pc = "done"]
                 ELSE [st.call EXCEPT !.pc = "done",
                         !.ret = Some(searchVersesScan(st.cache, st.call.query,
                                                       st.call.language, st.call.limit))]]
  /\ cache' = st.cache
  /\ storage' = st.storage
  /\ UNCHANGED <<index, last, preVars>>

\* an initialize() that starts the preloader before it looks at the outcome
\* of loadQuranIndex
FinishInitializePreloading(c, st) ==
  LET started == loadChaptersStart("essential", 1, calls, st.cache, st.storage,
                                   last, now, offlineFirst)
  IN  /\ index' = st.call.loaded
      /\ calls' = [started.calls EXCEPT ![c] =
                     [st.call EXCEPT !.pc = "done", !.error = "",
                                     !.ret = Some(st.call.error = "")]]
      /\ cache' = started.cache
      /\ storage' = started.storage
      /\ preloadPc' = "essential"
      /\ UNCHANGED <<last, timer, waves, unhandled>>

(***************************************************************************)
(* initialize() after `await this.loadQuranIndex()`: on failure the catch  *)
(* returns false; otherwise this.index is set, preloadPriorityChapters()   *)
(* is called without await (it runs up to its await of loadChapters) and   *)
(* initialize returns true                                                 *)
(***************************************************************************)
FinishInitialize(c, st) ==
  IF st.call.error # ""
    THEN /\ calls' = [calls EXCEPT ![c] =
                        [st.call EXCEPT !.pc = "done", !.error = "", !.ret = Some(FALSE)]]
         /\ cache' = st.cache
         /\ storage' = st.storage
         /\ UNCHANGED <<index, last, preVars>>
    ELSE LET started == loadChaptersStart("essential", 1, calls, st.cache, st.storage,
                                          last, now, offlineFirst)
         IN  /\ index' = st.call.loaded
             /\ calls' = [started.calls EXCEPT ![c] =
                            [st.call EXCEPT !.pc = "done", !.ret = Some(TRUE)]]
             /\ cache' = started.cache
             /\ storage' = started.storage
             /\ preloadPc' = "essential"
             /\ UNCHANGED <<last, timer, waves, unhandled>>

Commit(c, st) ==
  IF st.call.pc # "settled" THEN Suspend(c, st)
  ELSE IF st.call.op = "getVerse" THEN FinishGetVerse(c, st)
  ELSE IF st.call.op = "searchVerses" THEN FinishSearchVerses(c, st)
  ELSE IF st.call.op = "initialize" THEN FinishInitialize(c, st)
  ELSE FinishLoad(c, st)

(***************************************************************************)
(* The resumption of a suspended call                                      *)
(***************************************************************************)
ResumeStep(call, cacheM, store) ==
  IF call.op \in ChapterOps
    THEN CASE call.pc = "read1"   -> loadChapterAfterRead(call, cacheM, store)
           [] call.pc = "written" -> loadChapterAfterWrite(call, cacheM, store)
           [] call.pc = "read2"   -> loadChapterAfterFallback(call, cacheM, store)
    ELSE CASE call.pc = "read1"   -> loadQuranIndexAfterRead(call, cacheM, store)
           [] call.pc = "written" -> loadQuranIndexAfterWrite(call, cacheM, store)
           [] call.pc = "read2"   -> loadQuranIndexAfterFallback(call, cacheM, store)

ResponseStep(call, resp, cacheM, store, time, ver, full) ==
  IF call.op \in ChapterOps
    THEN loadChapterResponse(call, resp, cacheM, store, time, ver, full)
    ELSE loadQuranIndexResponse(call, resp, cacheM, store, time, ver, full)

\* no user call is between its start and its end
Quiescent == calls[UserId].pc \in {"idle", "done"}

CanCall == Quiescent /\ ncalls < MaxCalls

(***************************************************************************)
(* Actions: the user's calls                                               *)
(***************************************************************************)
CallLoadChapter(n) ==
  /\ CanCall
  /\ Commit(UserId, loadChapterStart(NewCall("loadChapter", n, 0, storage, last, now),
                                     cache, storage, now, offlineFirst))
  /\ ncalls' = ncalls + 1
  /\ UNCHANGED <<cfgVars, clockVars, serverVer, probe, dartVars>>

CallLoadQuranIndex ==
  /\ CanCall
  /\ Commit(UserId, loadQuranIndexStart(NewCall("loadQuranIndex", 0, 0, storage, last, now),
                                        cache, storage, now, offlineFirst))
  /\ ncalls' = ncalls + 1
  /\ UNCHANGED <<cfgVars, clockVars, serverVer, probe, dartVars>>

\* getVerse(`${n}:${v}`): !chapterNum || !verseNum rejects the reference
CallGetVerse(n, v) ==
  /\ CanCall
  /\ LET call == NewCall("getVerse", n, v, storage, last, now)
     IN  IF n = 0 \/ v = 0
           THEN Commit(UserId, Step([call EXCEPT !.pc = "settled",
                                                 !.error = "InvalidReference"],
                                    cache, storage))
           ELSE Commit(UserId, loadChapterStart(call, cache, storage, now, offlineFirst))
  /\ ncalls' = ncalls + 1
  /\ UNCHANGED <<cfgVars, clockVars, serverVer, probe, dartVars>>

\* searchVerses(query, {language, limit}): if (!this.index) await this.loadQuranIndex()
CallSearchVerses(query, language, limit) ==
  /\ CanCall
  /\ LET call == [NewCall("searchVerses", 0, 0, storage, last, now)
                    EXCEPT !.query = query, !.language = language, !.limit = limit]
     IN  IF index = None
           THEN Commit(UserId, loadQuranIndexStart(call, cache, storage, now, offlineFirst))
           ELSE Commit(UserId, Step([call EXCEPT !.pc = "settled"], cache, storage))
  /\ ncalls' = ncalls + 1
  /\ UNCHANGED <<cfgVars, clockVars, serverVer, probe, dartVars>>

CallInitialize ==
  /\ calls[InitId].pc = "idle"
  /\ Commit(InitId, loadQuranIndexStart(NewCall("initialize", 0, 0, storage, last, now),
                                        cache, storage, now, offlineFirst))
  /\ UNCHANGED <<cfgVars, clockVars, serverVer, ncalls, probe, dartVars>>

(***************************************************************************)
(* Actions: a suspended call is resumed; the response of a request arrives *)
(***************************************************************************)
Resume(c) ==
  /\ calls[c].pc \in {"read1", "written", "read2"}
  /\ Commit(c, ResumeStep(calls[c], cache, storage))
  /\ UNCHANGED <<cfgVars, clockVars, serverVer, ncalls, probe, dartVars>>

Respond(c, resp) ==
  /\ calls[c].pc = "fetching"
  /\ Commit(c, ResponseStep(calls[c], resp, cache, storage, now, serverVer, quotaExceeded))
  /\ UNCHANGED <<cfgVars, clockVars, serverVer, ncalls, probe, dartVars>>

(***************************************************************************)
(* Actions: clearCache(), the clock, the CDN, a restart of the app         *)
(***************************************************************************)
\* a clearCache() that empties the host store with storage.clear()
clearCacheWholeStore ==
  /\ cache' = <<>>
  /\ storage' = <<>>
  /\ last' = <<>>
  /\ UNCHANGED <<cfgVars, clockVars, index, serverVer, calls, ncalls, preVars, probe, dartVars>>

clearCache ==
  /\ cache' = <<>>
  /\ storage' = [sk \in {k \in DOMAIN storage : ~HasPrefix(k)} |-> storage[sk]]
  /\ last' = <<>>
  /\ UNCHANGED <<cfgVars, clockVars, index, serverVer, calls, ncalls, preVars, probe, dartVars>>

\* clearCache() on a host store that throws: Object.keys(this.storage) or a
\* removeItem throws after the keys in `removed` have been removed, the
\* catch logs the error and the remaining keys stay
clearCacheFailing ==
  \E removed \in SUBSET {k \in DOMAIN storage : HasPrefix(k)} :
    /\ removed # {k \in DOMAIN storage : HasPrefix(k)}
    /\ cache' = <<>>
    /\ storage' = [sk \in DOMAIN storage \ removed |-> storage[sk]]
    /\ last' = <<>>
    /\ UNCHANGED <<cfgVars, clockVars, index, serverVer, calls, ncalls, preVars, probe,
                   dartVars>>

Tick(d) ==
  /\ ticks < MaxTicks
  /\ now + d <= MaxNow
  /\ now' = now + d
  /\ ticks' = ticks + 1
  /\ UNCHANGED <<cfgVars, cache, storage, index, serverVer, calls, ncalls, last,
                 preVars, probe, dartVars>>

Publish ==
  /\ serverVer < MaxVersion
  /\ serverVer' = serverVer + 1
  /\ UNCHANGED <<cfgVars, clockVars, cache, storage, index, calls, ncalls, last,
                 preVars, probe, dartVars>>

NoTimer == [set |-> FALSE, setAt |-> 0, due |-> 0, fired |-> FALSE]

NoWaves == [essential |-> None, popular |-> None]

\* new QuranService(config) in a new process: the host store is all that survives
Restart ==
  /\ cache' = <<>>
  /\ index' = None
  /\ calls' = [c \in CallIds |-> IdleCall]
  /\ last' = <<>>
  /\ preloadPc' = "idle"
  /\ timer' = NoTimer
  /\ waves' = NoWaves
  /\ unhandled' = {}
  /\ UNCHANGED <<cfgVars, clockVars, storage, serverVer, ncalls, probe, dartVars>>

(***************************************************************************)
(* Actions: preloadPriorityChapters and the timer callback                 *)
(***************************************************************************)
WaveSettled(wave) == \A id \in WaveIds(wave) : calls[id].pc = "done"

\* a timer that runs its callback without waiting
TimerDueAtOnce(due, time) == TRUE

\* the 2000 ms of setTimeout have passed
TimerDue(due, time) == time >= due

\* preloadPriorityChapters after `await this.loadChapters(this.loadingPriority[1])`
EssentialSettled ==
  /\ preloadPc = "essential"
  /\ WaveSettled("essential")
  /\ LET res == loadChaptersResult("essential", calls)
     IN  /\ waves' = [waves EXCEPT !.essential = Some(res)]
         /\ IF res.status = "fulfilled"
              THEN /\ timer' = [set |-> TRUE, setAt |-> now, due |-> now + PreloadDelayMs,
                               fired |-> FALSE]
                   /\ preloadPc' = "scheduled"
              ELSE /\ timer' = timer
                   /\ preloadPc' = "caught"
  /\ UNCHANGED <<cfgVars, clockVars, cache, storage, index, serverVer, calls, ncalls,
                 last, unhandled, probe, dartVars>>

\* the timer callback: this.loadChapters(this.loadingPriority[2]), not awaited
TimerFires ==
  /\ timer.set /\ ~timer.fired
  /\ TimerDue(timer.due, now)
  /\ LET started == loadChaptersStart("popular", 1, calls, cache, storage, last, now,
                                      offlineFirst)
     IN  /\ calls' = started.calls
         /\ cache' = started.cache
         /\ storage' = started.storage
  /\ timer' = [timer EXCEPT !.fired = TRUE]
  /\ preloadPc' = "popular"
  /\ UNCHANGED <<cfgVars, clockVars, index, serverVer, ncalls, last, waves, unhandled,
                 probe, dartVars>>

\* loadChapters of the timer callback resolves; nothing handles its rejection
PopularSettled ==
  /\ preloadPc = "popular"
  /\ WaveSettled("popular")
  /\ LET res == loadChaptersResult("popular", calls)
     IN  /\ waves' = [waves EXCEPT !.popular = Some(res)]
         /\ unhandled' = IF res.status = "rejected"
                           THEN unhandled \cup {"loadChapters(popular)"} ELSE unhandled
  /\ preloadPc' = "finished"
  /\ UNCHANGED <<cfgVars, clockVars, cache, storage, index, serverVer, calls, ncalls,
                 last, timer, probe, dartVars>>

(***************************************************************************)
(* Actions: direct calls of the cache-management methods                   *)
(***************************************************************************)
NoProbe == [set |-> None, get |-> None]

\* a direct setCachedData call; the clock may pass a millisecond boundary
\* between the two Date.now() readings of the item
SetCachedData(key, data, ttlMs) ==
  /\ \E passed \in {0, 1} :
       /\ passed = 1 => (ticks < MaxTicks /\ now + 1 <= MaxNow)
       /\ storage' = setCachedDataAt(storage, key, data, ttlMs, now, now + passed,
                                     quotaExceeded)
       /\ now' = now + passed
       /\ ticks' = ticks + passed
  /\ probe' = [set |-> Some([key |-> key, data |-> data, ttlMs |-> ttlMs, at |-> now]),
               get |-> None]
  /\ UNCHANGED <<cfgVars, cache, index, serverVer, calls, ncalls, last, preVars, dartVars>>

GetCachedData(key) ==
  /\ LET r == getCachedData(storage, key, now)
     IN  /\ storage' = r.storage
         /\ probe' = [probe EXCEPT !.get = Some([key |-> key, at |-> now, ret |-> r.ret])]
  /\ UNCHANGED <<cfgVars, clockVars, cache, index, serverVer, calls, ncalls, last, preVars,
                 dartVars>>

(***************************************************************************)
(* The README's Dart HadithService.  The CDN serves one collection of      *)
(* TotalBooks books; hadith 3 is recorded twice in book 2 and again in     *)
(* book 3.  A hadith record has hadithNumber and text, with text.arabic    *)
(* and text.translations (null, or a mapping language -> text or null).    *)
(***************************************************************************)
TotalBooks == 3

HadithLangs == {"en", "ur"}

HadithRec(n, arabic, translations) ==
  [hadithNumber |-> n, text |-> [arabic |-> arabic, translations |-> translations]]

EnUr == Some([l \in HadithLangs |-> Some(<<l>>)])

BookContent(b) ==
  CASE b = 1 -> << HadithRec(1, <<"x">>, EnUr), HadithRec(2, <<"y">>, None) >>
    [] b = 2 -> << HadithRec(3, <<"p">>, EnUr), HadithRec(3, <<"q">>, None) >>
    [] b = 3 -> << HadithRec(3, <<"r">>, None), HadithRec(4, <<"s">>, EnUr) >>
    [] OTHER -> << HadithRec(b + 1, <<"t">>, None) >>

BookDoc(b) == [book |-> b, content |-> BookContent(b)]

CollectionDoc == [collection |-> "bukhari", totalBooks |-> TotalBooks]

\* 'collection_$collection' and 'book_${collection}_$bookNumber'
CollectionKey == <<"collection_bukhari", 0>>

BookKey(b) == <<"book_bukhari_", b>>

\* status 0 stands for an exception thrown by http.get
Statuses == {200, 201, 404, 0}

IdleHadithCall ==
  [pc |-> "idle", hadithNumber |-> 0, languages |-> None, totalBooks |-> 0,
   bookNum |-> 0, asked |-> <<>>, skipped |-> {}, ret |-> None, error |-> ""]

\* hadithList.firstWhere((h) => h['hadithNumber'] == hadithNumber, orElse: () => null):
\* the position of the record, 0 for null
FirstMatch(hadithList, hadithNumber) ==
  IF \E j \in 1..Len(hadithList) : hadithList[j].hadithNumber = hadithNumber
    THEN CHOOSE j \in 1..Len(hadithList) :
           /\ hadithList[j].hadithNumber = hadithNumber
           /\ \A k \in 1..(j - 1) : hadithList[k].hadithNumber # hadithNumber
    ELSE 0

\* the language filter: hadith['text']['translations'] = filteredTranslations
FilterLanguages(hadith, languages) ==
  IF languages # None /\ hadith.text.translations # None
    THEN [hadith EXCEPT !.text.translations =
            Some([l \in HadithLangs |->
                    IF l \in languages[1] THEN hadith.text.translations[1][l] ELSE None])]
    ELSE hadith

(***************************************************************************)
(* getHadith: the loop over the books from bookNum on, up to the next      *)
(* http.get or the end of the method.  getBook serves a cached book        *)
(* without a request.  The record found is the object held in _cache, so   *)
(* the language filter changes the cached book.                            *)
(***************************************************************************)
RECURSIVE getHadithLoop(_, _, _)
getHadithLoop(call, dc, bookNum) ==
  IF bookNum > call.totalBooks
    THEN [call |-> [call EXCEPT !.pc = "done", !.error = "NotFound"], dcache |-> dc]
  ELSE LET asking == [call EXCEPT !.asked = Append(@, bookNum), !.bookNum = bookNum]
       IN  IF BookKey(bookNum) \notin DOMAIN dc
             THEN [call |-> [asking EXCEPT !.pc = "book"], dcache |-> dc]
             ELSE LET book == dc[BookKey(bookNum)]
                      j == FirstMatch(book.content, call.hadithNumber)
                  IN  IF j = 0 THEN getHadithLoop(asking, dc, bookNum + 1)
                      ELSE LET hadith == FilterLanguages(book.content[j], call.languages)
                           IN  [call   |-> [asking EXCEPT !.pc = "done", !.ret = Some(hadith)],
                                dcache |-> Put(dc, BookKey(bookNum),
                                               [book EXCEPT !.content[j] = hadith])]

\* getHadith(collection, hadithNumber, languages): getCollection first
CallGetHadith(hadithNumber, languages) ==
  /\ hcall.pc \in {"idle", "done"}
  /\ ncalls < MaxCalls
  /\ ncalls' = ncalls + 1
  /\ LET call == [IdleHadithCall EXCEPT !.hadithNumber = hadithNumber,
                                        !.languages = languages]
     IN  IF CollectionKey \in DOMAIN dcache
           THEN LET r == getHadithLoop([call EXCEPT !.totalBooks =
                                          dcache[CollectionKey].totalBooks], dcache, 1)
                IN  hcall' = r.call /\ dcache' = r.dcache
           ELSE hcall' = [call EXCEPT !.pc = "collection"] /\ dcache' = dcache
  /\ UNCHANGED <<cfgVars, clockVars, cache, storage, index, serverVer, calls, last,
                 preVars, probe, verseVars, disk>>

\* the response to getCollection's http.get: any status but 200 throws out of getHadith
RespondCollection(status) ==
  /\ hcall.pc = "collection"
  /\ IF status = 200
       THEN LET dc == Put(dcache, CollectionKey, CollectionDoc)
                r == getHadithLoop([hcall EXCEPT !.totalBooks = CollectionDoc.totalBooks],
                                   dc, 1)
            IN  hcall' = r.call /\ dcache' = r.dcache
       ELSE hcall' = [hcall EXCEPT !.pc = "done", !.error = "CollectionFailed"]
            /\ dcache' = dcache
  /\ UNCHANGED <<cfgVars, clockVars, cache, storage, index, serverVer, calls, ncalls,
                 last, preVars, probe, verseVars, disk>>

\* the response to getBook's http.get: any status but 200 throws, and the
\* catch of the loop goes on with the next book
RespondBook(status) ==
  /\ hcall.pc = "book"
  /\ IF status = 200
       THEN LET dc == Put(dcache, BookKey(hcall.bookNum), BookDoc(hcall.bookNum))
                r == getHadithLoop([hcall EXCEPT !.asked = SubSeq(@, 1, Len(@) - 1)],
                                   dc, hcall.bookNum)
            IN  hcall' = r.call /\ dcache' = r.dcache
       ELSE LET r == getHadithLoop([hcall EXCEPT !.skipped = @ \cup {hcall.bookNum}],
                                   dcache, hcall.bookNum + 1)
            IN  hcall' = r.call /\ dcache' = r.dcache
  /\ UNCHANGED <<cfgVars, clockVars, cache, storage, index, serverVer, calls, ncalls,
                 last, preVars, probe, verseVars, disk>>

(***************************************************************************)
(* The README's Dart QuranService: getChapter and getVerse.  getChapter    *)
(* looks the key up in _cache and otherwise requests the chapter file,     *)
(* whatever the chapter number; the CDN holds the chapters 1..114.         *)
(***************************************************************************)
\* 'chapter_$chapterNumber'
ChapterCacheKey(chapterNumber) == <<"chapter_", chapterNumber>>

IdleVerseCall ==
  [pc |-> "idle", chapter |-> 0, verse |-> 0, io |-> <<>>, ret |-> None, error |-> ""]

\* verses.firstWhere((v) => v['verse'] == verse, orElse: () => throw ...): the
\* record, or None where orElse throws
firstWhere(verses, verse) ==
  IF \E j \in 1..Len(verses) : verses[j].verse = verse
    THEN Some(verses[CHOOSE j \in 1..Len(verses) :
                /\ verses[j].verse = verse
                /\ \A k \in 1..(j - 1) : verses[k].verse # verse])
    ELSE None

\* getVerse once getChapter has returned chapterData
dartGetVerseResult(call, chapterData) ==
  LET verseData == firstWhere(chapterData.content, call.verse)
  IN  IF verseData = None
        THEN [call EXCEPT !.pc = "done", !.error = "VerseNotFound"]
        ELSE [call EXCEPT !.pc = "done", !.ret = verseData]

\* getVerse(chapter, verse) up to the http.get of getChapter
CallDartGetVerse(chapter, verse) ==
  /\ vcall.pc \in {"idle", "done"}
  /\ ncalls < MaxCalls
  /\ ncalls' = ncalls + 1
  /\ LET call == [IdleVerseCall EXCEPT !.chapter = chapter, !.verse = verse,
                                       !.io = <<"mem">>]
     IN  IF ChapterCacheKey(chapter) \in DOMAIN qcache
           THEN vcall' = dartGetVerseResult(call, qcache[ChapterCacheKey(chapter)])
           ELSE vcall' = [call EXCEPT !.pc = "chapter", !.io = Append(@, "net")]
  /\ qcache' = qcache
  /\ UNCHANGED <<cfgVars, clockVars, cache, storage, index, serverVer, calls, last,
                 preVars, probe, hadithVars, disk>>

\* the response to getChapter's http.get: status 200 caches and returns the
\* document, any other status throws out of getVerse
RespondDartChapter(status) ==
  /\ vcall.pc = "chapter"
  /\ status = 200 => ValidChapter(vcall.chapter)
  /\ IF status = 200
       THEN LET data == ChapterDoc(vcall.chapter, serverVer)
            IN  /\ qcache' = Put(qcache, ChapterCacheKey(vcall.chapter), data)
                /\ vcall' = dartGetVerseResult(vcall, data)
       ELSE /\ qcache' = qcache
            /\ vcall' = [vcall EXCEPT !.pc = "done", !.error = "ChapterFailed"]
  /\ UNCHANGED <<cfgVars, clockVars, cache, storage, index, serverVer, calls, ncalls,
                 last, preVars, probe, hadithVars, disk>>

(***************************************************************************)
(* scripts/extract-hadith.js.  A source file lists hadiths, each with the  *)
(* book (section) it belongs to in reference.book; metadata.sections names *)
(* the sections, "0" included.  The collection directory keeps the files   *)
(* of earlier runs.                                                        *)
(***************************************************************************)
MaxHadiths == 3

SourceBooks == 0..3

Sections == [b \in SourceBooks |-> <<"section", b>>]

SourceHadith(n, b) ==
  [hadithnumber |-> n, text |-> <<"h", n>>, reference |-> [book |-> b, hadith |-> n]]

\* source files: hadiths numbered in order, each in some section
Sources ==
  UNION { { [metadata |-> [sections |-> Sections],
             hadiths  |-> [i \in 1..len |-> SourceHadith(i, books[i])]] :
            books \in [1..len -> SourceBooks] } : len \in 1..MaxHadiths }

EmptyDir == [books |-> <<>>, collection |-> None]

convertHadith(sourceHadith) ==
  [hadithNumber |-> sourceHadith.hadithnumber,
   book         |-> sourceHadith.reference.book,
   hadithInBook |-> sourceHadith.reference.hadith,
   text         |-> [arabic |-> sourceHadith.text]]

\* books[hadith.reference.book].hadith.push(convertHadith(hadith)) for each hadith
groupHadithByBooks(sourceData) ==
  LET hadiths == sourceData.hadiths
      numbers == { hadiths[i].reference.book : i \in DOMAIN hadiths }
      InBook(b) == SelectSeq(hadiths, LAMBDA h : h.reference.book = b)
  IN  [b \in numbers |->
         [hadith |-> [j \in DOMAIN InBook(b) |-> convertHadith(InBook(b)[j])]]]

createBookFile(bookNumber, bookData) ==
  [book |-> bookNumber, totalHadith |-> Len(bookData.hadith), content |-> bookData.hadith]

\* extractCollection(sourceCollection): the directory it leaves
extractCollection(sourceData, dir) ==
  LET collectionInfo == [collection  |-> "bukhari",
                         totalBooks  |-> Cardinality(DOMAIN sourceData.metadata.sections) - 1,
                         totalHadith |-> Len(sourceData.hadiths)]
      bookGroups == groupHadithByBooks(sourceData)
      bookCount  == Cardinality(DOMAIN bookGroups)
  IN  [books      |-> [b \in DOMAIN dir.books \cup DOMAIN bookGroups |->
                         IF b \in DOMAIN bookGroups
                           THEN createBookFile(b, bookGroups[b]) ELSE dir.books[b]],
       collection |-> Some([collectionInfo EXCEPT !.totalBooks = bookCount])]

\* one run of the script on a source file, or on a missing one (it returns)
ExtractCollection(source) ==
  /\ ncalls < MaxCalls
  /\ ncalls' = ncalls + 1
  /\ disk' = IF source = None THEN disk ELSE extractCollection(source[1], disk)
  /\ UNCHANGED <<cfgVars, clockVars, cache, storage, index, serverVer, calls, last,
                 preVars, probe, hadithVars, verseVars>>

(***************************************************************************)
(* Initial states and specifications                                       *)
(***************************************************************************)
\* a key of the host application next to the service's keys
ForeignKey == <<"app-", "theme", 0>>

HostStore == [sk \in {ForeignKey} |-> <<"text", [theme |-> "dark"]>>]

Constructed ==
  /\ offlineFirst \in BOOLEAN
  /\ quotaExceeded \in BOOLEAN
  /\ cache = <<>>
  /\ index = None
  /\ now = 1
  /\ ticks = 0
  /\ serverVer = 1
  /\ calls = [c \in CallIds |-> IdleCall]
  /\ ncalls = 0
  /\ last = <<>>
  /\ preloadPc = "idle"
  /\ timer = NoTimer
  /\ waves = NoWaves
  /\ unhandled = {}
  /\ probe = NoProbe
  /\ dcache = <<>>
  /\ hcall = IdleHadithCall
  /\ qcache = <<>>
  /\ vcall = IdleVerseCall
  /\ disk = EmptyDir

Init == Constructed /\ storage = HostStore

\* chapter numbers the user passes: the first chapter and the neighbours of 1..114
ChapterArgs == {0, 1, 115}

TickSteps == {1, IndexTtlMs, ChapterTtlMs}

\* the user's loads one after the other, on a service that is never initialized
Next ==
  \/ \E n \in ChapterArgs : CallLoadChapter(n)
  \/ CallLoadQuranIndex
  \/ Resume(UserId)
  \/ \E resp \in Responses : Respond(UserId, resp)
  \/ (Quiescent /\ clearCache)
  \/ \E d \in TickSteps : Tick(d)
  \/ Publish
  \/ Restart

Spec == Init /\ [][Next]_vars

(***************************************************************************)
(* initialize() and the preloader, on a store that is empty or was left    *)
(* by an earlier session                                                   *)
(***************************************************************************)
WarmStore ==
  setCachedData(setCachedData(HostStore, IndexKey, IndexDoc(1), IndexTtlMs, 0, FALSE),
                ChapterKey(1), ChapterDoc(1, 1), ChapterTtlMs, 0, FALSE)

InitInit == Constructed /\ storage \in {HostStore, WarmStore}

ServiceIds == CallIds \ {UserId}

NextInit ==
  \/ CallInitialize
  \/ \E c \in ServiceIds : Resume(c)
  \/ \E c \in ServiceIds, resp \in Responses : Respond(c, resp)
  \/ EssentialSettled
  \/ TimerFires
  \/ PopularSettled
  \/ \E d \in {1, PreloadDelayMs} : Tick(d)

SpecInit == InitInit /\ [][NextInit]_vars

(***************************************************************************)
(* getVerse calls one after the other, of the JavaScript service and of    *)
(* the Dart service                                                        *)
(***************************************************************************)
VerseChapters == {-1, 0, 2, 115}

VerseArgs == {0, 1, 255, 9999}

NextVerse ==
  \/ \E n \in VerseChapters, v \in VerseArgs : CallDartGetVerse(n, v)
  \/ \E status \in Statuses : RespondDartChapter(status)
  \/ \E n \in VerseChapters, v \in VerseArgs : CallGetVerse(n, v)
  \/ Resume(UserId)
  \/ \E resp \in Responses : Respond(UserId, resp)
  \/ Publish

SpecVerse == Init /\ [][NextVerse]_vars

(***************************************************************************)
(* searchVerses calls between loadChapter calls that fill this.cache       *)
(***************************************************************************)
SearchChapters == {1, 2}

Queries == {<<"a">>, <<"b">>, <<"A", "B">>}

Languages == {"en", "fr"}

Limits == {0, 1, 50}

NextSearch ==
  \/ \E n \in SearchChapters : CallLoadChapter(n)
  \/ \E q \in Queries, l \in Languages, m \in Limits : CallSearchVerses(q, l, m)
  \/ Resume(UserId)
  \/ \E resp \in Responses : Respond(UserId, resp)

SpecSearch == Init /\ [][NextSearch]_vars

(***************************************************************************)
(* searchVerses calls while initialize() and the loads of the essential    *)
(* list fill this.cache in the order their responses arrive                *)
(***************************************************************************)
NextPreloadSearch ==
  \/ CallInitialize
  \/ \E c \in CallIds : Resume(c)
  \/ \E c \in CallIds, resp \in Responses : Respond(c, resp)
  \/ EssentialSettled
  \/ \E q \in Queries, l \in Languages, m \in Limits : CallSearchVerses(q, l, m)

SpecPreloadSearch == Init /\ [][NextPreloadSearch]_vars

(***************************************************************************)
(* A user's loadChapter calls overlapping initialize() and the loads of    *)
(* the essential list.  A call suspended                                   *)
(* at the await of getCachedData or setCachedData (both complete without   *)
(* waiting for anything) is resumed in a microtask, that is before a       *)
(* response arrives and before the clock advances; calls made from the     *)
(* same turn of the event loop can start in between.                       *)
(***************************************************************************)
RaceChapters == {1}

Microtasks == \E c \in CallIds : calls[c].pc \in {"read1", "written", "read2"}

NextRace ==
  \/ CallInitialize
  \/ \E n \in RaceChapters : CallLoadChapter(n)
  \/ \E c \in CallIds : Resume(c)
  \/ \E c \in CallIds, resp \in Responses : (~Microtasks /\ Respond(c, resp))
  \/ EssentialSettled
  \/ Publish

SpecRace == InitInit /\ [][NextRace]_vars

\* the same with clearCache() called at any moment
NextClear ==
  \/ CallInitialize
  \/ \E n \in RaceChapters : CallLoadChapter(n)
  \/ \E c \in CallIds : Resume(c)
  \/ \E c \in CallIds, resp \in Responses : (~Microtasks /\ Respond(c, resp))
  \/ EssentialSettled
  \/ clearCache

SpecClear == InitInit /\ [][NextClear]_vars

(***************************************************************************)
(* The user's loads and clearCache() between them, on a host store that    *)
(* may throw while it is cleared                                           *)
(***************************************************************************)
NextSweep ==
  \/ \E n \in RaceChapters : CallLoadChapter(n)
  \/ CallLoadQuranIndex
  \/ Resume(UserId)
  \/ \E resp \in Responses : Respond(UserId, resp)
  \/ (Quiescent /\ clearCache)
  \/ (Quiescent /\ clearCacheFailing)

SpecSweep == InitInit /\ [][NextSweep]_vars

(***************************************************************************)
(* getHadith calls of the Dart HadithService one after the other           *)
(***************************************************************************)
HadithNumbers == {1, 3, 4, 9}

LanguageFilters == {None, Some({"en"})}

NextHadith ==
  \/ \E h \in HadithNumbers, ls \in LanguageFilters : CallGetHadith(h, ls)
  \/ \E status \in Statuses : RespondCollection(status)
  \/ \E status \in Statuses : RespondBook(status)

SpecHadith == Init /\ [][NextHadith]_vars

(***************************************************************************)
(* Runs of extract-hadith.js on one collection                             *)
(***************************************************************************)
NextExtract == \E source \in {None} \cup { Some(src) : src \in Sources } : ExtractCollection(source)

SpecExtract == Init /\ [][NextExtract]_vars

(***************************************************************************)
(* The cache-management methods called directly                            *)
(***************************************************************************)
ProbeKeys == {ChapterKey(1), IndexKey}

ProbeData == {ChapterDoc(1, 1), IndexDoc(1)}

ProbeTtls == {-1, 0, 1, 2}

NextStore ==
  \/ \E key \in ProbeKeys, data \in ProbeData, ttlMs \in ProbeTtls :
       SetCachedData(key, data, ttlMs)
  \/ \E key \in ProbeKeys : GetCachedData(key)
  \/ Tick(1)

SpecStore == Init /\ [][NextStore]_vars

(***************************************************************************)
(* Properties of the accessors (Spec)                                      *)
(***************************************************************************)
User == calls[UserId]

IsLoad(call) == call.op \in {"loadChapter", "loadQuranIndex"}

\* C1: an accessor whose network fetch fails returns the document the
\* persistent store held under its key when the call started, whatever the
\* entry's TTL state, and fails only if the store held no entry for the key.
FallbackServesPersisted ==
  (User.pc = "done" /\ IsLoad(User) /\ User.netfail /\ User.persisted # None)
    => (User.error = "" /\ User.ret = User.persisted)

ProbedBack ==
  /\ probe.set # None /\ probe.get # None
  /\ probe.get[1].key = probe.set[1].key

Elapsed == probe.get[1].at - probe.set[1].at

Initialize == calls[InitId]

InitializeReturned(value) == Initialize.pc = "done" /\ Initialize.ret = Some(value)

WaveStarted(wave) == \A id \in WaveIds(wave) : calls[id].pc # "idle"

\* C5 as stated: when initialize() has returned, every load of the
\* essential list has settled.
EssentialSettledAtReturn ==
  InitializeReturned(TRUE) => WaveSettled("essential")

\* C5 amended: when initialize() has returned true, every load of the
\* essential list has been started, but initialize() does not wait for
\* them; they are awaited by preloadPriorityChapters, which sets the timer
\* of the popular list only when all of them have settled.
EssentialStartedAtReturn ==
  /\ InitializeReturned(TRUE) => (preloadPc # "idle" /\ WaveStarted("essential"))
  /\ timer.set => WaveSettled("essential")

ReturnedWhileEssentialPending ==
  /\ InitializeReturned(TRUE)
  /\ \A id \in WaveIds("essential") : calls[id].pc = "fetching"

\* C6: whatever loads of the essential and of the popular list fail,
\* initialize() completes with its normal result (true when the index was
\* obtained, no error thrown), and no rejection of the preloader is left
\* without a handler.
PreloadFailuresSwallowed ==
  /\ unhandled = {}
  /\ Initialize.pc = "done" =>
       /\ Initialize.error = ""
       /\ Initialize.ret = Some(index # None)
  /\ (preloadPc # "idle") => InitializeReturned(TRUE)

PreloadFinishedWithFailures ==
  /\ preloadPc = "finished"
  /\ InitializeReturned(TRUE)
  /\ \E id \in WaveIds("essential") : calls[id].error = "FetchFailed"
  /\ \E id \in WaveIds("popular") : calls[id].error = "FetchFailed"

\* C7: a load of the popular list starts only when every load of the
\* essential list has settled and 2000 ms have passed since then, and
\* initialize() has returned before the timer is even set.
PopularAfterEssentialAndDelay ==
  /\ (\E id \in WaveIds("popular") : calls[id].pc # "idle")
       => /\ WaveSettled("essential")
          /\ timer.set
          /\ now >= timer.setAt + 2000
  /\ timer.set => Initialize.pc = "done"

PopularStartedWhenDue ==
  /\ WaveStarted("popular")
  /\ now = timer.setAt + 2000
  /\ \E id \in WaveIds("essential") : calls[id].error = "FetchFailed"

(***************************************************************************)
(* Properties of getVerse (SpecVerse)                                      *)
(***************************************************************************)
GetVerseDone == User.pc = "done" /\ User.op = "getVerse"

\* the records of the loaded chapter document with the requested verse number
Matching == { j \in 1..Len(User.loaded[1].content) :
                User.loaded[1].content[j].verse = User.verse }

ReturnsRecord(rec) ==
  /\ User.error = ""
  /\ User.ret # None
  /\ User.ret[1].chapter = User.chapter
  /\ User.ret[1].verse = User.verse
  /\ User.ret[1].arabic = rec.arabic
  /\ User.ret[1].translation = rec.translations

\* what getVerse does with the chapter document once loadChapter returned it
FoundOrNotFound ==
  IF Matching # {}
    THEN \E j \in Matching : ReturnsRecord(User.loaded[1].content[j])
    ELSE User.error = "VerseNotFound"

\* no published version of the chapter has a record with the verse number
NoSuchVerse(n, v) ==
  \A ver \in 1..MaxVersion : \A j \in 1..Len(Content(n, ver)) : Content(n, ver)[j].verse # v

\* what the Dart getVerse does with the chapter document getChapter returned
DartFoundOrNotFound ==
  LET verses == qcache[ChapterCacheKey(vcall.chapter)].content
  IN  IF \E j \in 1..Len(verses) : verses[j].verse = vcall.verse
        THEN /\ vcall.error = "" /\ vcall.ret # None
             /\ vcall.ret[1].verse = vcall.verse
             /\ \E j \in 1..Len(verses) : vcall.ret[1] = verses[j]
        ELSE vcall.error = "VerseNotFound"

\* C8: getVerse returns the record of the chapter document whose verse
\* field equals the requested number, fails with NotFound when no record
\* has that number, and fails before any I/O for a chapter outside 1..114;
\* stated of the JavaScript getVerse and of the Dart getVerse.
GetVerseNotFoundWhenAbsent ==
  /\ GetVerseDone =>
       /\ User.chapter \notin 1..114 => (User.error # "" /\ User.io = <<>>)
       /\ (User.chapter \in 1..114 /\ User.loaded # None) => FoundOrNotFound
       /\ (User.chapter \in 1..114 /\ NoSuchVerse(User.chapter, User.verse)
             /\ User.error # "FetchFailed") => User.error = "VerseNotFound"
  /\ vcall.pc # "idle" =>
       /\ vcall.chapter \notin 1..114 =>
            (vcall.pc = "done" /\ vcall.error # "" /\ vcall.io = <<>>)
       /\ (vcall.pc = "done" /\ vcall.chapter \in 1..114 /\ vcall.error # "ChapterFailed")
            => DartFoundOrNotFound

(***************************************************************************)
(* Properties of searchVerses (SpecSearch)                                 *)
(***************************************************************************)
SearchDone == User.pc = "done" /\ User.op = "searchVerses" /\ User.error = ""

\* the text of a verse for a language: its translation, or its Arabic text
\* when it has no translation for the language
TextFor(verse, language) ==
  IF verse.translations[TranslationKey(language)] # None
    THEN verse.translations[TranslationKey(language)][1]
    ELSE verse.arabic

Contains(text, query) == includes(toLowerCase(text), toLowerCase(query))

\* C10: searchVerses returns a verse of a memory-resident chapter only if
\* the verse's text for the language (translation, else Arabic) contains
\* the query case-insensitively, with its chapter number, verse number and
\* that text; and while the cap is not reached it returns every such verse
\* of every memory-resident chapter.
SearchMatchesTextWithFallback ==
  SearchDone =>
    LET results == User.ret[1]
    IN  /\ \A r \in 1..Len(results) :
             \E i \in 1..Len(cache) : \E j \in 1..Len(cache[i].value.content) :
               LET verse == cache[i].value.content[j]
               IN  /\ results[r].chapter = cache[i].value.chapter
                   /\ results[r].verse = verse.verse
                   /\ results[r].translation = TextFor(verse, User.language)
                   /\ Contains(TextFor(verse, User.language), User.query)
        /\ Len(results) < User.limit =>
             \A i \in 1..Len(cache) : \A j \in 1..Len(cache[i].value.content) :
               LET verse == cache[i].value.content[j]
               IN  Contains(TextFor(verse, User.language), User.query) =>
                     \E r \in 1..Len(results) :
                       /\ results[r].chapter = cache[i].value.chapter
                       /\ results[r].verse = verse.verse

(***************************************************************************)
(* Properties of the Dart getHadith (SpecHadith)                           *)
(***************************************************************************)
BookHas(b, h) == \E j \in 1..Len(BookContent(b)) : BookContent(b)[j].hadithNumber = h

\* the books are asked for in the order 1, 2, 3, ...
AskedAscending == \A i \in 1..Len(hcall.asked) : hcall.asked[i] = i

\* the record returned is the first one with the number in the last book asked for
ReturnsFirstOfLastBook ==
  LET content == BookContent(Len(hcall.asked))
  IN  \E j \in 1..Len(content) :
        /\ content[j].hadithNumber = hcall.hadithNumber
        /\ \A k \in 1..(j - 1) : content[k].hadithNumber # hcall.hadithNumber
        /\ hcall.ret[1].hadithNumber = hcall.hadithNumber
        /\ hcall.ret[1].text.arabic = content[j].text.arabic

\* C9 as stated: getHadith asks for the books in ascending order from 1,
\* returns the first record with the number and asks for no book after it,
\* and fails with NotFound only when every book 1..totalBooks has been
\* scanned without a match.
NotFoundAfterEveryBookScanned ==
  /\ AskedAscending
  /\ (hcall.pc = "done" /\ hcall.ret # None) =>
       /\ ReturnsFirstOfLastBook
       /\ \A b \in 1..(Len(hcall.asked) - 1) : ~BookHas(b, hcall.hadithNumber)
  /\ (hcall.pc = "done" /\ hcall.error = "NotFound") =>
       /\ Len(hcall.asked) = TotalBooks
       /\ hcall.skipped = {}
       /\ \A b \in 1..TotalBooks : ~BookHas(b, hcall.hadithNumber)

(***************************************************************************)
(* Properties of searchVerses: cap, order and frame (SpecSearch,           *)
(* SpecPreloadSearch)                                                      *)
(***************************************************************************)
\* C11: searchVerses never returns more matches than its cap
\* (options.limit), for every cap >= 0 and any contents of this.cache.
SearchWithinCap ==
  (SearchDone /\ User.limit >= 0) => Len(User.ret[1]) <= User.limit

\* C12: the matches searchVerses returns are in source order, chapter
\* number ascending and verse number ascending within a chapter, whatever
\* the order in which the chapters entered this.cache.
SearchInSourceOrder ==
  SearchDone =>
    LET results == User.ret[1]
    IN  \A r, t \in 1..Len(results) :
          r < t => \/ results[r].chapter < results[t].chapter
                   \/ /\ results[r].chapter = results[t].chapter
                      /\ results[r].verse < results[t].verse

\* a step taken by the user's searchVerses call
SearchStep == User'.op = "searchVerses" /\ calls'[UserId] # calls[UserId]

CachedDocumentsUnmodified ==
  /\ \A k \in DOMAIN dcache :
       dcache[k] = IF k = CollectionKey THEN CollectionDoc ELSE BookDoc(k[2])
  /\ \A k \in DOMAIN qcache :
       \E ver \in 1..MaxVersion : qcache[k] = ChapterDoc(k[2], ver)
  /\ \A i \in 1..Len(cache) :
       \E ver \in 1..MaxVersion : cache[i].value = ChapterDoc(cache[i].key[2], ver)

(***************************************************************************)
(* Properties of the persistent cache (Spec, SpecStore)                    *)
(***************************************************************************)
\* the README's recommended cache TTLs, in days
cacheTTL == [metadata |-> 1, index |-> 7, content |-> 30]

DayMs == 24 * 60 * 60 * 1000

\* C15: every entry the service writes to the persistent cache carries the
\* TTL of its resource class: 7 days for the index document, 30 days for a
\* chapter.
WritesCarryClassTtl ==
  \A sk \in DOMAIN storage :
    HasPrefix(sk) =>
      LET item == JSONparse(storage[sk])
          days == IF sk = StorageKey(IndexKey) THEN cacheTTL.index ELSE cacheTTL.content
      IN  /\ item.expires # None
          /\ (item.expires[1] - item.cached) % DayMs = 0
          /\ (item.expires[1] - item.cached) \div DayMs = days

\* the entry stored under the key, as parsed
StoredItem(key) == JSONparse(storage[StorageKey(key)])

Held(key) == StorageKey(key) \in DOMAIN storage

\* C16 as stated: getCachedData returns the stored value exactly when the
\* entry has no expiry or now < expires; a read at now = expires is a miss.
ValidIffBeforeExpiry ==
  [][ \A key \in ProbeKeys :
        (GetCachedData(key) /\ Held(key)) =>
          LET item == StoredItem(key)
          IN  IF item.expires = None \/ now < item.expires[1]
                THEN probe'.get[1].ret = Some(item.data)
                ELSE probe'.get[1].ret = None ]_vars

\* C16 amended: getCachedData returns the stored value exactly when the
\* entry has no expiry or now <= expires; a read at now = expires is still
\* a hit, and a read is a miss only when now > expires.
ValidIffNotPastExpiry ==
  [][ \A key \in ProbeKeys :
        (GetCachedData(key) /\ Held(key)) =>
          LET item == StoredItem(key)
          IN  IF item.expires = None \/ now <= item.expires[1]
                THEN probe'.get[1].ret = Some(item.data)
                ELSE probe'.get[1].ret = None ]_vars

ReadAtExpiresIsHit ==
  /\ ProbedBack /\ ~quotaExceeded
  /\ Held(probe.get[1].key)
  /\ StoredItem(probe.get[1].key).expires = Some(probe.get[1].at)
  /\ probe.set[1].ttlMs = 1
  /\ probe.get[1].ret = Some(probe.set[1].data)

\* C17: a getCachedData that finds an expired entry (now > expires) returns
\* a miss and removes exactly that entry; every other entry of the store is
\* unchanged; a read of an entry that is not expired, or of a key with no
\* entry, leaves the store as it was.
LazyEvictionOfReadKeyOnly ==
  [][ \A key \in ProbeKeys :
        GetCachedData(key) =>
          IF Held(key) /\ StoredItem(key).expires # None
                       /\ now > StoredItem(key).expires[1]
            THEN /\ probe'.get[1].ret = None
                 /\ DOMAIN storage' = DOMAIN storage \ {StorageKey(key)}
                 /\ \A sk \in DOMAIN storage' : storage'[sk] = storage[sk]
            ELSE storage' = storage ]_vars

ExpiredEntryEvictedOthersKept ==
  /\ ProbedBack /\ ~quotaExceeded
  /\ probe.set[1].ttlMs = 1 /\ Elapsed > 1
  /\ probe.get[1].ret = None
  /\ ~Held(probe.get[1].key)
  /\ \E other \in ProbeKeys \ {probe.get[1].key} : Held(other)
  /\ ForeignKey \in DOMAIN storage

(***************************************************************************)
(* Properties of the order of cache and network accesses (Spec)            *)
(***************************************************************************)
\* the accesses of the user's call before its i-th access
Before(i) == SubSeq(User.io, 1, i - 1)

Requests == { i \in 1..Len(User.io) : User.io[i] = "net" }

\* C18 as stated: in every call of loadQuranIndex and loadChapter, under
\* every configuration, a request is issued only after a memory-cache
\* check and then a persistent-cache check.
RequestAfterBothCacheChecks ==
  IsLoad(User) =>
    \A i \in Requests :
      \E j, k \in 1..(i - 1) : j < k /\ User.io[j] = "mem" /\ User.io[k] = "store"

\* C18 amended: loadChapter checks the memory cache first; with
\* offlineFirst on it then reads the persistent cache and issues its
\* request only after both missed, with offlineFirst off it issues the
\* request right after the memory miss.  loadQuranIndex checks no memory
\* cache: with offlineFirst on it reads the persistent cache and then
\* issues its request, with offlineFirst off the request comes first.  A
\* call issues at most one request, and reads the persistent cache after
\* the request only when the request failed.
RequestAfterConfiguredChecks ==
  IsLoad(User) =>
    /\ (User.op = "loadChapter" /\ User.io # <<>>) => User.io[1] = "mem"
    /\ \A i \in Requests :
         /\ Before(i) = (IF User.op = "loadChapter" THEN <<"mem">> ELSE <<>>)
                           \o (IF offlineFirst THEN <<"store">> ELSE <<>>)
         /\ \A k \in (i + 1)..Len(User.io) :
              /\ User.io[k] # "net"
              /\ User.io[k] = "store" => User.netfail
    /\ Cardinality(Requests) <= 1

RequestAfterBothMisses ==
  /\ User.pc = "done" /\ User.op = "loadChapter" /\ offlineFirst
  /\ User.io = <<"mem", "store", "net", "memw", "storew">>

(***************************************************************************)
(* Properties of the writes after a successful fetch (Spec)                *)
(***************************************************************************)
\* the user's loadQuranIndex or loadChapter returns the document it fetched
ReturnsFetched ==
  /\ User.pc = "written" /\ User'.pc = "done"
  /\ IsLoad(User') /\ User'.error = ""

TakenAsSuccess ==
  /\ User'.pc = "written" /\ User'.loaded # None /\ ~User'.netfail
  /\ User'.io[Len(User'.io)] = "storew"

\* the response is taken as a failure: nothing is written to this.cache or
\* to the store, the catch block reads the persistent cache, and no second
\* request is issued
TakenAsFailure ==
  /\ User'.pc = "read2" /\ User'.netfail
  /\ cache' = cache
  /\ \A sk \in DOMAIN storage' : sk \in DOMAIN storage /\ storage'[sk] = storage[sk]
  /\ User'.io = Append(User.io, "store")
  /\ Len(SelectSeq(User'.io, LAMBDA e : e = "net")) = 1

InFlightFor(n) ==
  \E c \in CallIds \ {UserId} :
    /\ calls[c].op = "loadChapter" /\ calls[c].chapter = n
    /\ calls[c].pc \in {"read1", "fetching"}

Uncached(n) == ~MapHas(cache, ChapterKey(n)) /\ ~Held(ChapterKey(n))

\* C21: no coalescing: a loadChapter that starts for an uncached chapter
\* while another load of the same chapter is in flight misses this.cache
\* and the persistent cache, and issues its own request, also when the
\* other load has filled the caches by the time it resumes.
NoCoalescing ==
  [][ /\ \A n \in RaceChapters :
           (CallLoadChapter(n) /\ InFlightFor(n) /\ Uncached(n)) =>
             \/ User'.pc = "fetching" /\ User'.io = <<"mem", "net">>
             \/ /\ User'.pc = "read1" /\ User'.io = <<"mem", "store">>
                /\ User'.cached = None
      /\ (Resume(UserId) /\ User.pc = "read1" /\ User.cached = None) =>
           (User'.pc = "fetching" /\ User'.io = <<"mem", "store", "net">>) ]_vars

BothFetching ==
  /\ User.pc = "fetching" /\ User.op = "loadChapter" /\ User.chapter = 1
  /\ calls[<<"essential", 1>>].pc = "fetching"
  /\ calls[<<"essential", 1>>].chapter = 1
  /\ Uncached(1)

Preloaded(n) == calls[<<"essential", n>>]

\* the user's loadChapter(1) and the preloader's load of chapter 1 have both
\* completed, and the CDN has served one content version throughout
RaceOver ==
  /\ User.op = "loadChapter" /\ User.chapter = 1 /\ User.pc = "done"
  /\ Preloaded(1).chapter = 1 /\ Preloaded(1).pc = "done"
  /\ serverVer = 1

RaceReturns(doc) ==
  \A call \in {User, Preloaded(1)} : call.error = "" => call.ret = Some(doc)

Fetched(call) == \E i \in DOMAIN call.io : call.io[i] = "net"

MemoryKeys(cacheM) == { cacheM[i].key : i \in DOMAIN cacheM }

\* the step is a read of the persistent cache under the storage key sk
ReadsStore(sk) ==
  \E c \in CallIds :
    /\ calls'[c] # calls[c]
    /\ StorageKey(LoadKey(calls'[c])) = sk
    /\ calls'[c].io # <<>> /\ calls'[c].io[Len(calls'[c].io)] = "store"

ExpiredAt(sk, time) ==
  LET parsed == JSONparse(storage[sk])
  IN  Truthy(parsed.expires) /\ time > parsed.expires[1]

\* C23: within one service instance an entry leaves this.cache only in a
\* clearCache() step (a restart builds a new, empty instance); an entry of
\* the persistent cache is removed only by clearCache() or by a read of its
\* key that finds it expired.
RemovedOnlyByClearOrExpiredRead ==
  [][ /\ (MemoryKeys(cache) \ MemoryKeys(cache') # {}) => (clearCache \/ Restart)
      /\ \A sk \in DOMAIN storage \ DOMAIN storage' :
           clearCache \/ (ReadsStore(sk) /\ ExpiredAt(sk, now)) ]_vars

ExpiredEntryRemovedByRead ==
  /\ User.op = "loadChapter" /\ User.pc = "read1"
  /\ User.persisted # None /\ ~User.fresh
  /\ ~Held(LoadKey(User))

(***************************************************************************)
(* The item written by setCachedData (SpecStore)                           *)
(***************************************************************************)
JustWritten ==
  /\ probe.set # None /\ probe.get = None /\ ~quotaExceeded
  /\ Held(probe.set[1].key)

\* C24: the item setCachedData writes with a TTL t > 0 has
\* expires = cached + t; with t <= 0 its expires is null.
ExpiresIsCachedPlusTtl ==
  JustWritten =>
    LET item == StoredItem(probe.set[1].key)
        t    == probe.set[1].ttlMs
    IN  IF t > 0 THEN item.expires = Some(item.cached + t)
        ELSE item.expires = None

(***************************************************************************)
(* Coherence of the two caches (SpecRace)                                  *)
(***************************************************************************)
\* no call of the service is between its start and its end
AllQuiet == \A c \in CallIds : calls[c].pc \in {"idle", "done"}

\* this.cache and the persistent cache agree on every chapter both hold
Coherent ==
  \A n \in RaceChapters :
    (MapHas(cache, ChapterKey(n)) /\ Fresh(storage, ChapterKey(n), now)) =>
      Persisted(storage, ChapterKey(n)) = Some(MapGet(cache, ChapterKey(n)))

ReadBeforeClear(c) ==
  /\ calls[c].pc \in {"read1", "read2"}
  /\ calls[c].cached # None
  /\ ~Held(LoadKey(calls[c]))

\* C26: a document that a load read from the persistent cache before
\* clearCache() is not written into this.cache or the persistent cache
\* when the load resumes after the clear.
ClearNotUndoneByLoadsInFlight ==
  [][ \A c \in CallIds :
        (ReadBeforeClear(c) /\ Resume(c)) =>
          (~MapHas(cache', LoadKey(calls[c])) /\ ~Held(LoadKey(calls[c]))') ]_vars

(***************************************************************************)
(* Book numbering of an extracted collection (SpecExtract)                 *)
(***************************************************************************)
\* C27: the book files of an extracted collection are numbered exactly
\* 1..totalBooks of its collection.json.
BookFilesAreOneToTotalBooks ==
  disk.collection # None =>
    DOMAIN disk.books = 1..disk.collection[1].totalBooks

(***************************************************************************)
(* The result of loadChapters (SpecInit)                                   *)
(***************************************************************************)
EssentialResults == [i \in 1..Len(Essential) |-> calls[<<"essential", i>>]]

\* C28: loadChapters(list) resolves; every entry of its failure report
\* names a chapter whose load rejected, the entries being those loads in
\* list order, and the array returned holds the documents of the loads
\* that succeeded, in list order.
FailureReportPairsChapters ==
  waves.essential # None =>
    LET res  == waves.essential[1]
        kept == SelectSeq(EssentialResults, Fulfilled)
        lost == SelectSeq(EssentialResults, Rejected)
    IN  /\ res.status = "fulfilled"
        /\ res.successful = [i \in 1..Len(kept) |-> kept[i].ret[1]]
        /\ Len(res.failed) = Len(lost)
        /\ \A i \in 1..Len(lost) :
             /\ res.failed[i].chapter = lost[i].chapter
             /\ res.failed[i].error = lost[i].error

(***************************************************************************)
(* The outcome of initialize() (SpecInit)                                  *)
(***************************************************************************)
NothingPreloaded ==
  /\ preloadPc = "idle" /\ ~timer.set /\ waves = NoWaves
  /\ \A id \in WaveIds("essential") \cup WaveIds("popular") : calls[id] = IdleCall

\* C29: initialize() never rejects; it resolves to true exactly when
\* loadQuranIndex produced the index (from the cache or the network), and
\* when it resolves to false no chapter load was started and no timer set.
InitializeTrueIffIndexObtained ==
  Initialize.pc = "done" =>
    /\ Initialize.error = ""
    /\ Initialize.ret \in {Some(TRUE), Some(FALSE)}
    /\ (Initialize.ret = Some(TRUE)) <=> (Initialize.loaded # None)
    /\ (Initialize.ret = Some(TRUE)) => (index = Initialize.loaded)
    /\ (Initialize.ret = Some(FALSE)) => (NothingPreloaded /\ index = None)

InitializeFailedNothingStarted ==
  /\ Initialize.pc = "done" /\ Initialize.ret = Some(FALSE)
  /\ Initialize.netfail /\ Initialize.loaded = None
  /\ NothingPreloaded

(***************************************************************************)
(* The frame of clearCache() (SpecSweep)                                   *)
(***************************************************************************)
PrefixedKeys(store) == {sk \in DOMAIN store : HasPrefix(sk)}

ForeignKeysKept ==
  /\ DOMAIN storage' \subseteq DOMAIN storage
  /\ \A sk \in DOMAIN storage : ~HasPrefix(sk) =>
        (sk \in DOMAIN storage' /\ storage'[sk] = storage[sk])

====
